---- MODULE Spec2Model ----
(***************************************************************************)
(* A model of the pipers crate (src/src/lib.rs): the Pipe builder that     *)
(* chains external commands, the parent's descriptor table, the spawned    *)
(* processes and the pipes between them.                                   *)
(***************************************************************************)
EXTENDS Integers, Sequences, FiniteSets, TLC

(***************************************************************************)
(* Bounds of the model.                                                    *)
(***************************************************************************)
\* Longest command string, in characters.
MaxLen == 2
\* Longest command string while the processes are run as well.
RunLen == 1
\* Most new/then calls in one chain.
MaxStages == 3
\* Longest command string when the words of a command are looked at.
TokLen == 5
\* Bytes a pipe holds before a writer blocks.
PipeCap == 2

(***************************************************************************)
(* Command strings are sequences of characters.                            *)
(***************************************************************************)
Chars == {" ", "l", "g", "h"}

RECURSIVE SeqsUpTo(_)
SeqsUpTo(n) ==
    IF n = 0 THEN {<<>>}
    ELSE LET shorter == SeqsUpTo(n - 1)
         IN shorter \cup {Append(s, c) : s \in {t \in shorter : Len(t) = n - 1}, c \in Chars}

Commands == SeqsUpTo(MaxLen)
\* the command strings used while the processes are run as well
RunCommands == SeqsUpTo(RunLen)

\* the command strings, over fewer characters, long enough for a program
\* and two arguments
TokChars == {" ", "l", "g"}
TokCommands == {s \in SeqsUpTo(TokLen) : \A k \in 1..Len(s) : s[k] \in TokChars}

\* a test for whitespace that knows no blank
IsWhitespaceNoBlank(c) == c \in {"\t", "\n", "\r"}

\* char::is_whitespace, as str::split_whitespace uses it
IsWhitespace(c) == c \in {" ", "\t", "\n", "\r"}

\* str::split_whitespace followed by collect: the maximal runs of
\* non-whitespace characters, in order.  cur is the token being read.
RECURSIVE SplitFrom(_, _, _)
SplitFrom(s, i, cur) ==
    IF i > Len(s)
    THEN IF cur = <<>> THEN <<>> ELSE <<cur>>
    ELSE IF IsWhitespace(s[i])
         THEN IF cur = <<>> THEN SplitFrom(s, i + 1, <<>>)
                            ELSE <<cur>> \o SplitFrom(s, i + 1, <<>>)
         ELSE SplitFrom(s, i + 1, Append(cur, s[i]))

\* a split that loses a repeated argument
RECURSIVE Dedup(_)
Dedup(t) ==
    IF Len(t) <= 1 THEN t
    ELSE IF t[Len(t)] \in {t[k] : k \in 1..(Len(t) - 1)}
         THEN Dedup(SubSeq(t, 1, Len(t) - 1))
         ELSE Append(Dedup(SubSeq(t, 1, Len(t) - 1)), t[Len(t)])
SplitDedup(s) == Dedup(SplitFrom(s, 1, <<>>))

split_whitespace(s) == SplitFrom(s, 1, <<>>)

(***************************************************************************)
(* std::io::Error values: a kind and a message.                            *)
(***************************************************************************)
NoErr == [kind |-> "none", msg |-> ""]
\* pipe_new_error("No command as input")
EmptyCommandErr == [kind |-> "Other", msg |-> "No command as input"]
\* pipe_new_error("No stdout for a command") and the error of peek
NoStdoutErr == [kind |-> "Other", msg |-> "No stdout for a command"]
\* what Command::spawn returns for an executable it cannot find (ENOENT)
NotFoundErr == [kind |-> "NotFound", msg |-> "No such file or directory (os error 2)"]

(***************************************************************************)
(* The host: the executables that exist, and what each does with its       *)
(* input.  "l" writes a fixed listing, "g" keeps the matching bytes, "h"   *)
(* keeps the first byte.                                                   *)
(***************************************************************************)
Resolvable == {<<"l">>, <<"g">>, <<"h">>}
Listing == <<1, 2>>
Matches(b) == b = 2
\* what the parent's own standard input holds (nothing: end of file)
StdinData == <<>>

\* Command::spawn's verdict on a program name
SpawnVerdict(program) == IF program \in Resolvable THEN NoErr ELSE NotFoundErr

(***************************************************************************)
(* State.                                                                  *)
(***************************************************************************)
VARIABLES
    caller,     \* where the calling code is: "start", "building", "finalized",
                \* "collected" or "dropped"
    pipe,       \* the Pipe value the caller holds (its field child)
    stages,     \* how many new/then calls the chain has seen
    hist,       \* per new/then call, what that command by itself amounts to
    procs,      \* the processes spawned so far, in order
    bufs,       \* bufs[i]: the bytes in flight in the stdout pipe of process i
    fds,        \* the parent's open descriptors: number -> the pipe it reads
    given,      \* the command string the last call was given, if it took one
    lastSpawn,  \* what the last call asked of Command::spawn
    opens,      \* the descriptor numbers the last call opened, in order
    closes,     \* the close() calls of the last call, in order
    peeked,     \* what the last peek returned
    result,     \* what finally returned
    out         \* the bytes wait_with_output has collected

vars == <<caller, pipe, stages, hist, procs, bufs, fds, given, lastSpawn, opens,
          closes, peeked, result, out>>

\* Result<Child>: Ok(child) with child.stdout = Some(fd) (stdout > 0) or None
\* (stdout = 0), or Err(err).
PipeOk(pid, fd) == [tag |-> "Ok", child |-> pid, stdout |-> fd, err |-> NoErr]
PipeErr(e) == [tag |-> "Err", child |-> 0, stdout |-> 0, err |-> e]
\* no value: not yet constructed, or moved out
NoPipe == [tag |-> "None", child |-> 0, stdout |-> 0, err |-> NoErr]

\* pipe_new_error: a Pipe holding a new error of kind Other
pipe_new_error(e) == PipeErr(e)
\* pipe_error: a Pipe holding the error passed in
pipe_error(e) == PipeErr(e)

\* the command: &str argument of a call; a call without one gives NoCommand
Given(command) == [called |-> TRUE, command |-> command]
NoCommand == [called |-> FALSE, command |-> <<>>]

NoSpawn == [program |-> <<>>, args |-> <<>>, stdin |-> 0, piped |-> FALSE]
NoPeek == [tag |-> "None", stdout |-> 0, err |-> NoErr]

\* descriptors 0, 1 and 2 are the parent's standard streams
FirstFd == 3

\* the descriptor number open()/pipe() hands out: the lowest one not in use
LowestFree(used) ==
    CHOOSE n \in FirstFd..(FirstFd + Cardinality(used)) :
        /\ n \notin used
        /\ \A m \in FirstFd..(n - 1) : m \in used

\* close(fd) on a descriptor table
CloseFd(table, fd) == [n \in DOMAIN table \ {fd} |-> table[n]]
\* the record of one close() call: the number, whether it was open, and
\* whether what it closed belonged to other code of the host process
CloseRec(table, fd) == [fd |-> fd, open |-> fd \in DOMAIN table, foreign |-> FALSE]
\* a close() of a number the caller no longer owns, which another thread of
\* the host process has been given in the meantime
ForeignClose(fd) == [fd |-> fd, open |-> TRUE, foreign |-> TRUE]

NewProc(program, stdinPipe) ==
    [prog |-> program, stdin |-> stdinPipe, status |-> "running", sent |-> 0]

\* a spawn that does not ask for the child's output to be captured
SpawnUnpiped(program, args, stdinFd, table) ==
    LET pid == Len(procs) + 1
        stdinPipe == IF stdinFd = 0 THEN 0
                     ELSE IF stdinFd \in DOMAIN table THEN table[stdinFd] ELSE -1
    IN  IF SpawnVerdict(program) = NoErr
        THEN [child |-> PipeOk(pid, 0),
              table |-> table,
              procs |-> Append(procs, NewProc(program, stdinPipe)),
              bufs |-> Append(bufs, <<>>),
              opens |-> <<>>,
              closes |-> <<>>]
        ELSE [child |-> PipeErr(SpawnVerdict(program)),
              table |-> table,
              procs |-> procs,
              bufs |-> bufs,
              opens |-> <<>>,
              closes |-> <<>>]

\* a spawn whose failure is reported as a missing command
SpawnMasked(program, args, stdinFd, table) ==
    LET r == LowestFree(DOMAIN table)
        w == LowestFree(DOMAIN table \cup {r})
        pid == Len(procs) + 1
        stdinPipe == IF stdinFd = 0 THEN 0
                     ELSE IF stdinFd \in DOMAIN table THEN table[stdinFd] ELSE -1
    IN  IF SpawnVerdict(program) = NoErr
        THEN [child |-> PipeOk(pid, r),
              table |-> (r :> pid) @@ table,
              procs |-> Append(procs, NewProc(program, stdinPipe)),
              bufs |-> Append(bufs, <<>>),
              opens |-> <<r, w>>,
              closes |-> <<[fd |-> w, open |-> TRUE, foreign |-> FALSE]>>]
        ELSE [child |-> PipeErr(EmptyCommandErr),
              table |-> table,
              procs |-> procs,
              bufs |-> bufs,
              opens |-> <<r, w>>,
              closes |-> <<[fd |-> r, open |-> TRUE, foreign |-> FALSE], [fd |-> w, open |-> TRUE, foreign |-> FALSE]>>]

\* Command::new(program).args(args).stdout(Stdio::piped())[.stdin(stdio)].spawn()
\* in descriptor table `table`; stdinFd = 0 leaves the input inherited.
\* A pipe is made for the child's output; on success the parent keeps its read
\* end and closes the write end, on failure it closes both.
Spawn(program, args, stdinFd, table) ==
    LET r == LowestFree(DOMAIN table)
        w == LowestFree(DOMAIN table \cup {r})
        verdict == SpawnVerdict(program)
        pid == Len(procs) + 1
        stdinPipe == IF stdinFd = 0 THEN 0
                     ELSE IF stdinFd \in DOMAIN table THEN table[stdinFd] ELSE -1
    IN  IF verdict = NoErr
        THEN [child |-> PipeOk(pid, r),
              table |-> (r :> pid) @@ table,
              procs |-> Append(procs, NewProc(program, stdinPipe)),
              bufs |-> Append(bufs, <<>>),
              opens |-> <<r, w>>,
              closes |-> <<[fd |-> w, open |-> TRUE, foreign |-> FALSE]>>]
        ELSE [child |-> PipeErr(verdict),
              table |-> table,
              procs |-> procs,
              bufs |-> bufs,
              opens |-> <<r, w>>,
              closes |-> <<[fd |-> r, open |-> TRUE, foreign |-> FALSE], [fd |-> w, open |-> TRUE, foreign |-> FALSE]>>]

\* what a command string amounts to on its own: the error its stage fails
\* with when it is the one to be tokenized and spawned, or NoErr
StageVerdict(command) ==
    LET split == split_whitespace(command)
    IN  IF split = <<>> THEN EmptyCommandErr ELSE SpawnVerdict(Head(split))

Init ==
    /\ caller = "start"
    /\ pipe = NoPipe
    /\ stages = 0
    /\ hist = <<>>
    /\ procs = <<>>
    /\ bufs = <<>>
    /\ fds = <<>>
    /\ given = NoCommand
    /\ lastSpawn = NoSpawn
    /\ opens = <<>>
    /\ closes = <<>>
    /\ peeked = NoPeek
    /\ result = NoPipe
    /\ out = <<>>

(***************************************************************************)
(* Pipe::new                                                               *)
(***************************************************************************)
\* a new that hands the child no input instead of leaving it inherited
NewNullStdin(command) ==
    /\ caller = "start"
    /\ caller' = "building"
    /\ stages' = stages + 1
    /\ hist' = Append(hist, StageVerdict(command))
    /\ given' = Given(command)
    /\ LET split == split_whitespace(command)
       IN  IF split = <<>>
           THEN /\ pipe' = pipe_new_error(EmptyCommandErr)
                /\ lastSpawn' = NoSpawn
                /\ opens' = <<>>
                /\ closes' = <<>>
                /\ UNCHANGED <<procs, bufs, fds>>
           ELSE LET sp == Spawn(Head(split), Tail(split), -1, fds)
                IN  /\ pipe' = sp.child
                    /\ lastSpawn' = [program |-> Head(split), args |-> Tail(split),
                                     stdin |-> -1, piped |-> TRUE]
                    /\ procs' = sp.procs
                    /\ bufs' = sp.bufs
                    /\ fds' = sp.table
                    /\ opens' = sp.opens
                    /\ closes' = sp.closes
    /\ UNCHANGED <<peeked, result, out>>

New(command) ==
    /\ caller = "start"
    /\ caller' = "building"
    /\ stages' = stages + 1
    /\ hist' = Append(hist, StageVerdict(command))
    /\ given' = Given(command)
    /\ LET split == split_whitespace(command)
       IN  IF split = <<>>
           THEN /\ pipe' = pipe_new_error(EmptyCommandErr)
                /\ lastSpawn' = NoSpawn
                /\ opens' = <<>>
                /\ closes' = <<>>
                /\ UNCHANGED <<procs, bufs, fds>>
           ELSE LET sp == Spawn(Head(split), Tail(split), 0, fds)
                IN  /\ pipe' = sp.child
                    /\ lastSpawn' = [program |-> Head(split), args |-> Tail(split),
                                     stdin |-> 0, piped |-> TRUE]
                    /\ procs' = sp.procs
                    /\ bufs' = sp.bufs
                    /\ fds' = sp.table
                    /\ opens' = sp.opens
                    /\ closes' = sp.closes
    /\ UNCHANGED <<peeked, result, out>>

(***************************************************************************)
(* Pipe::then                                                              *)
(***************************************************************************)
\* a then that describes the failure anew instead of passing it on
ThenFailedFresh(command) ==
    /\ pipe' = pipe_new_error(NoStdoutErr)
    /\ lastSpawn' = NoSpawn
    /\ opens' = <<>>
    /\ closes' = <<>>
    /\ UNCHANGED <<procs, bufs, fds>>

\* a then that tokenizes and spawns the command before it looks at self.child
ThenFailedSpawning(command) ==
    LET split == split_whitespace(command)
    IN  /\ pipe' = pipe_error(pipe.err)
        /\ IF split = <<>>
           THEN /\ lastSpawn' = NoSpawn
                /\ opens' = <<>>
                /\ closes' = <<>>
                /\ UNCHANGED <<procs, bufs, fds>>
           ELSE LET sp == Spawn(Head(split), Tail(split), 0, fds)
                IN  /\ lastSpawn' = [program |-> Head(split), args |-> Tail(split),
                                     stdin |-> 0, piped |-> TRUE]
                    /\ procs' = sp.procs
                    /\ bufs' = sp.bufs
                    /\ fds' = sp.table
                    /\ opens' = sp.opens
                    /\ closes' = sp.closes

\* self.child is Err(e): the error is passed down the chain, whatever the
\* command
ThenFailed(command) ==
    /\ pipe' = pipe_error(pipe.err)
    /\ lastSpawn' = NoSpawn
    /\ opens' = <<>>
    /\ closes' = <<>>
    /\ UNCHANGED <<procs, bufs, fds>>

\* self.child is Ok(child) and child.stdout is None
ThenNoStdout ==
    /\ pipe' = pipe_new_error(NoStdoutErr)
    /\ lastSpawn' = NoSpawn
    /\ opens' = <<>>
    /\ closes' = <<>>
    /\ UNCHANGED <<procs, bufs, fds>>

\* a then that skips a command without tokens and keeps the chain as it is
ThenEmptySkips ==
    /\ pipe' = pipe
    /\ lastSpawn' = NoSpawn
    /\ opens' = <<>>
    /\ closes' = <<>>
    /\ UNCHANGED <<procs, bufs, fds>>

\* a then that forgets the taken stdout when the command has no token, so
\* that its descriptor is never closed
ThenEmptyLeaks ==
    /\ pipe' = pipe_new_error(EmptyCommandErr)
    /\ lastSpawn' = NoSpawn
    /\ opens' = <<>>
    /\ closes' = <<>>
    /\ UNCHANGED <<procs, bufs, fds>>

\* a then that kills the upstream process when the command has no token
ThenEmptyKills ==
    /\ pipe' = pipe_new_error(EmptyCommandErr)
    /\ lastSpawn' = NoSpawn
    /\ opens' = <<>>
    /\ closes' = <<CloseRec(fds, pipe.stdout)>>
    /\ fds' = CloseFd(fds, pipe.stdout)
    /\ procs' = [procs EXCEPT ![pipe.child].status = "killed"]
    /\ UNCHANGED bufs

\* the command has no token: the taken stdout is dropped on return
ThenEmpty ==
    /\ pipe' = pipe_new_error(EmptyCommandErr)
    /\ lastSpawn' = NoSpawn
    /\ opens' = <<>>
    /\ closes' = <<CloseRec(fds, pipe.stdout)>>
    /\ fds' = CloseFd(fds, pipe.stdout)
    /\ UNCHANGED <<procs, bufs>>

\* a then that drops the taken stdout before it spawns: the number handed
\* to the new process is closed by then
ThenSpawnDropsFirst(split) ==
    LET n == pipe.stdout
        afterFirst == CloseFd(fds, n)
        sp == Spawn(Head(split), Tail(split), n, afterFirst)
    IN  /\ pipe' = sp.child
        /\ lastSpawn' = [program |-> Head(split), args |-> Tail(split),
                         stdin |-> n, piped |-> TRUE]
        /\ procs' = sp.procs
        /\ bufs' = sp.bufs
        /\ opens' = sp.opens
        /\ closes' = <<CloseRec(fds, n)>> \o sp.closes \o <<CloseRec(afterFirst, n)>>
        /\ fds' = CloseFd(sp.table, n)

\* a then that leaves the new process's input inherited
ThenSpawnInherits(split) ==
    LET n == pipe.stdout
        sp == Spawn(Head(split), Tail(split), 0, fds)
        afterFirst == CloseFd(sp.table, n)
    IN  /\ pipe' = sp.child
        /\ lastSpawn' = [program |-> Head(split), args |-> Tail(split),
                         stdin |-> 0, piped |-> TRUE]
        /\ procs' = sp.procs
        /\ bufs' = sp.bufs
        /\ opens' = sp.opens
        /\ \E raced \in BOOLEAN :
               closes' = sp.closes \o <<CloseRec(sp.table, n),
                                        IF raced THEN ForeignClose(n)
                                                 ELSE CloseRec(afterFirst, n)>>
        /\ fds' = CloseFd(afterFirst, n)

\* the command is spawned with stdin a second owner of stdout's descriptor
\* (Stdio::from_raw_fd(stdout.as_raw_fd())); on return both owners are
\* dropped, stdout and the Command holding stdio, and each closes the number.
\* The second close finds the number closed, unless another thread of the
\* host process opened a descriptor in between: then it closes that one.
ThenSpawn(split) ==
    LET n == pipe.stdout
        sp == Spawn(Head(split), Tail(split), n, fds)
        afterFirst == CloseFd(sp.table, n)
    IN  /\ pipe' = sp.child
        /\ lastSpawn' = [program |-> Head(split), args |-> Tail(split),
                         stdin |-> n, piped |-> TRUE]
        /\ procs' = sp.procs
        /\ bufs' = sp.bufs
        /\ opens' = sp.opens
        /\ \E raced \in BOOLEAN :
               closes' = sp.closes \o <<CloseRec(sp.table, n),
                                        IF raced THEN ForeignClose(n)
                                                 ELSE CloseRec(afterFirst, n)>>
        /\ fds' = CloseFd(afterFirst, n)

\* a then that tokenizes the command before it looks for the output stream
ThenTokenizesFirst(command) ==
    /\ caller = "building"
    /\ stages < MaxStages
    /\ stages' = stages + 1
    /\ hist' = Append(hist, StageVerdict(command))
    /\ given' = Given(command)
    /\ IF pipe.tag = "Err" THEN ThenFailed(command)
       ELSE IF split_whitespace(command) = <<>>
       THEN IF pipe.stdout = 0
            THEN /\ pipe' = pipe_new_error(EmptyCommandErr)
                 /\ lastSpawn' = NoSpawn
                 /\ opens' = <<>>
                 /\ closes' = <<>>
                 /\ UNCHANGED <<procs, bufs, fds>>
            ELSE ThenEmpty
       ELSE IF pipe.stdout = 0 THEN ThenNoStdout
       ELSE ThenSpawn(split_whitespace(command))
    /\ UNCHANGED <<caller, peeked, result, out>>

Then(command) ==
    /\ caller = "building"
    /\ stages < MaxStages
    /\ stages' = stages + 1
    /\ hist' = Append(hist, StageVerdict(command))
    /\ given' = Given(command)
    /\ IF pipe.tag = "Err" THEN ThenFailed(command)
       ELSE IF pipe.stdout = 0 THEN ThenNoStdout
       ELSE IF split_whitespace(command) = <<>> THEN ThenEmpty
       ELSE ThenSpawn(split_whitespace(command))
    /\ UNCHANGED <<caller, peeked, result, out>>

(***************************************************************************)
(* Pipe::peek                                                              *)
(***************************************************************************)
\* a peek that hands a Failed builder's own error back
PeekValueStored(p) ==
    IF p.tag = "Ok" /\ p.stdout # 0
    THEN [tag |-> "Ok", stdout |-> p.stdout, err |-> NoErr]
    ELSE [tag |-> "Err", stdout |-> 0, err |-> IF p.tag = "Err" THEN p.err ELSE NoStdoutErr]

\* the value peek returns for a Pipe
PeekValue(p) ==
    IF p.tag = "Ok" /\ p.stdout # 0
    THEN [tag |-> "Ok", stdout |-> p.stdout, err |-> NoErr]
    ELSE [tag |-> "Err", stdout |-> 0, err |-> NoStdoutErr]

\* a peek that takes the stream out of the Child
PeekTakes ==
    /\ caller = "building"
    /\ peeked' = PeekValue(pipe)
    /\ pipe' = [pipe EXCEPT !.stdout = 0]
    /\ given' = NoCommand
    /\ lastSpawn' = NoSpawn
    /\ opens' = <<>>
    /\ closes' = <<>>
    /\ UNCHANGED <<caller, stages, hist, procs, bufs, fds, result, out>>

Peek ==
    /\ caller = "building"
    /\ peeked' = PeekValue(pipe)
    /\ given' = NoCommand
    /\ lastSpawn' = NoSpawn
    /\ opens' = <<>>
    /\ closes' = <<>>
    /\ UNCHANGED <<caller, pipe, stages, hist, procs, bufs, fds, result, out>>

(***************************************************************************)
(* Pipe::finally                                                           *)
(***************************************************************************)
\* a finally that returns the Child after closing its output stream
FinallyCloses ==
    /\ caller = "building"
    /\ caller' = "finalized"
    /\ result' = [pipe EXCEPT !.stdout = 0]
    /\ pipe' = NoPipe
    /\ given' = NoCommand
    /\ lastSpawn' = NoSpawn
    /\ opens' = <<>>
    /\ closes' = IF pipe.stdout # 0 THEN <<CloseRec(fds, pipe.stdout)>> ELSE <<>>
    /\ fds' = CloseFd(fds, pipe.stdout)
    /\ UNCHANGED <<stages, hist, procs, bufs, peeked, out>>

Finally ==
    /\ caller = "building"
    /\ caller' = "finalized"
    /\ result' = pipe
    /\ pipe' = NoPipe
    /\ given' = NoCommand
    /\ lastSpawn' = NoSpawn
    /\ opens' = <<>>
    /\ closes' = <<>>
    /\ UNCHANGED <<stages, hist, procs, bufs, fds, peeked, out>>

(***************************************************************************)
(* The caller lets go of the Pipe without finalizing it: the Child is      *)
(* dropped, which closes its stdout and leaves the process alone.          *)
(***************************************************************************)
\* a drop that waits for the child to end before it lets go of it
DropWaits ==
    /\ caller = "building"
    /\ pipe.tag = "Ok" => procs[pipe.child].status # "running"
    /\ caller' = "dropped"
    /\ pipe' = NoPipe
    /\ given' = NoCommand
    /\ lastSpawn' = NoSpawn
    /\ opens' = <<>>
    /\ IF pipe.tag = "Ok" /\ pipe.stdout # 0
       THEN /\ closes' = <<CloseRec(fds, pipe.stdout)>>
            /\ fds' = CloseFd(fds, pipe.stdout)
       ELSE /\ closes' = <<>>
            /\ fds' = fds
    /\ UNCHANGED <<stages, hist, procs, bufs, peeked, result, out>>

Drop ==
    /\ caller = "building"
    /\ caller' = "dropped"
    /\ pipe' = NoPipe
    /\ given' = NoCommand
    /\ lastSpawn' = NoSpawn
    /\ opens' = <<>>
    /\ IF pipe.tag = "Ok" /\ pipe.stdout # 0
       THEN /\ closes' = <<CloseRec(fds, pipe.stdout)>>
            /\ fds' = CloseFd(fds, pipe.stdout)
       ELSE /\ closes' = <<>>
            /\ fds' = fds
    /\ UNCHANGED <<stages, hist, procs, bufs, peeked, result, out>>

(***************************************************************************)
(* The spawned processes, scheduled by the operating system.               *)
(***************************************************************************)
\* some open read end of pipe i exists: a descriptor of the parent, or the
\* standard input of a running process
HasReader(i) ==
    \/ \E n \in DOMAIN fds : fds[n] = i
    \/ \E j \in 1..Len(procs) : procs[j].status = "running" /\ procs[j].stdin = i

\* the write end of pipe i is open: process i has it as its standard output
HasWriter(i) == procs[i].status = "running"

\* process i writes byte b to its standard output and goes on as `after`;
\* with no reader left the write raises SIGPIPE, with the pipe full it blocks
WriteByte(i, b, after, inputBufs) ==
    IF ~HasReader(i)
    THEN /\ procs' = [procs EXCEPT ![i].status = "killed"]
         /\ bufs' = inputBufs
    ELSE /\ Len(bufs[i]) < PipeCap
         /\ procs' = [procs EXCEPT ![i] = after]
         /\ bufs' = [inputBufs EXCEPT ![i] = Append(@, b)]

Exit(i) ==
    /\ procs' = [procs EXCEPT ![i].status = "exited"]
    /\ bufs' = bufs

\* "l": writes Listing, byte by byte, and exits; it reads nothing
StepList(i) ==
    LET p == procs[i]
    IN  IF p.sent < Len(Listing)
        THEN WriteByte(i, Listing[p.sent + 1], [p EXCEPT !.sent = @ + 1], bufs)
        ELSE Exit(i)

\* "g" and "h": read a byte; "g" writes it on when it matches and reads on,
\* "h" writes it on and exits; both exit at end of input
StepFilter(i) ==
    LET p == procs[i]
        src == p.stdin
    IN  IF src <= 0
        THEN \* the inherited input (StdinData is empty), or no input at all
             Exit(i)
        ELSE IF bufs[src] # <<>>
        THEN LET b == Head(bufs[src])
                 taken == [bufs EXCEPT ![src] = Tail(@)]
             IN  IF p.prog = <<"h">>
                 THEN WriteByte(i, b, [p EXCEPT !.status = "exited"], taken)
                 ELSE IF Matches(b)
                 THEN WriteByte(i, b, p, taken)
                 ELSE /\ bufs' = taken
                      /\ procs' = procs
        ELSE /\ ~HasWriter(src)
             /\ Exit(i)

ProcStep(i) ==
    /\ procs[i].status = "running"
    /\ IF procs[i].prog = <<"l">> THEN StepList(i) ELSE StepFilter(i)
    /\ UNCHANGED <<caller, pipe, stages, hist, fds, given, lastSpawn, opens, closes,
                   peeked, result, out>>

(***************************************************************************)
(* Child::wait_with_output on the handle finally returned: read its stdout *)
(* to the end, then drop the handle.                                       *)
(***************************************************************************)
Collect ==
    /\ caller = "finalized"
    /\ result.tag = "Ok"
    /\ result.stdout \in DOMAIN fds
    /\ LET i == fds[result.stdout]
       IN  IF bufs[i] # <<>>
           THEN /\ out' = Append(out, Head(bufs[i]))
                /\ bufs' = [bufs EXCEPT ![i] = Tail(@)]
                /\ UNCHANGED <<caller, fds, closes>>
           ELSE /\ ~HasWriter(i)
                /\ caller' = "collected"
                /\ closes' = <<CloseRec(fds, result.stdout)>>
                /\ fds' = CloseFd(fds, result.stdout)
                /\ UNCHANGED <<out, bufs>>
    /\ UNCHANGED <<pipe, stages, hist, procs, given, lastSpawn, opens, peeked, result>>

\* what a program makes of an input
Apply(program, input) ==
    IF program = <<"l">> THEN Listing
    ELSE IF program = <<"h">> THEN SubSeq(input, 1, IF Len(input) > 0 THEN 1 ELSE 0)
    ELSE SelectSeq(input, Matches)

\* what the first k programs of the chain make, in order, of the parent's input
RECURSIVE Piped(_)
Piped(k) == IF k = 0 THEN StdinData ELSE Apply(procs[k].prog, Piped(k - 1))

\* The builder as the calling code drives it, over every command string.
Next ==
    \/ \E command \in Commands : New(command)
    \/ \E command \in Commands : Then(command)
    \/ Peek
    \/ Finally
    \/ Drop

Spec == Init /\ [][Next]_vars

\* The builder together with the processes it spawned running concurrently
\* and the caller collecting the output, over the short command strings.
NextRun ==
    \/ \E command \in RunCommands : New(command)
    \/ \E command \in RunCommands : Then(command)
    \/ Peek
    \/ Finally
    \/ Drop
    \/ \E i \in 1..Len(procs) : ProcStep(i)
    \/ Collect

SpecRun == Init /\ [][NextRun]_vars

(***************************************************************************)
(* The operations applied to any value of type Pipe: a failed one holding  *)
(* any of the errors, a spawned one with its output stream, and a spawned  *)
(* one whose Child has stdout None.                                        *)
(***************************************************************************)
InitAny ==
    /\ caller = "building"
    /\ pipe \in {PipeErr(EmptyCommandErr), PipeErr(NoStdoutErr), PipeErr(NotFoundErr),
                 PipeOk(1, FirstFd), PipeOk(1, 0)}
    /\ stages = 1
    /\ hist = <<pipe.err>>
    /\ procs = IF pipe.tag = "Ok" THEN <<NewProc(<<"l">>, 0)>> ELSE <<>>
    /\ bufs = IF pipe.tag = "Ok" THEN <<(<<>>)>> ELSE <<>>
    /\ fds = IF pipe.stdout # 0 THEN (FirstFd :> 1) ELSE <<>>
    /\ given = NoCommand
    /\ lastSpawn = NoSpawn
    /\ opens = <<>>
    /\ closes = <<>>
    /\ peeked = NoPeek
    /\ result = NoPipe
    /\ out = <<>>

NextAny ==
    \/ \E command \in Commands : Then(command)
    \/ Peek
    \/ Finally
    \/ Drop

SpecAny == InitAny /\ [][NextAny]_vars

(***************************************************************************)
(* Properties.                                                             *)
(***************************************************************************)
\* the step is a call of then
ThenCall == caller = "building" /\ stages' = stages + 1

\* every character of the command is whitespace (the empty command too)
AllWhitespace(command) == \A k \in 1..Len(command) : command[k] \in {" ", "\t", "\n", "\r"}

\* the commands without a token, judged character by character
BlankCommands == {command \in Commands : AllWhitespace(command)}

\* the first stage whose command fails on its own, or 0
FirstFailure(h) ==
    IF \E i \in 1..Len(h) : h[i] # NoErr
    THEN CHOOSE i \in 1..Len(h) : h[i] # NoErr /\ \A j \in 1..(i - 1) : h[j] = NoErr
    ELSE 0

\* C1: then on a Failed builder returns a Failed builder holding the same
\* error, whatever the command, and no step takes a Failed builder to a
\* Spawned one.
C1_Absorption ==
    [][/\ pipe.tag = "Err" => pipe'.tag # "Ok"
       /\ (ThenCall /\ pipe.tag = "Err") => (pipe'.tag = "Err" /\ pipe'.err = pipe.err)]_vars

\* a builder that failed by a spawn error and then was given a valid command
C1_Witness ==
    /\ caller = "building"
    /\ Len(hist) = 3
    /\ hist[1] = NoErr /\ hist[2] = NotFoundErr /\ hist[3] = NoErr
    /\ pipe = PipeErr(NotFoundErr)

\* C2: finally returns Ok exactly when every stage's command tokenizes and
\* spawns, and otherwise the error of the earliest failing stage; the
\* processes spawned are those of the stages before the first failing one.
C2_FirstFailureDefinitive ==
    LET f == FirstFailure(hist)
    IN  /\ Len(procs) = (IF f = 0 THEN Len(hist) ELSE f - 1)
        /\ caller = "finalized" =>
              /\ result.tag = "Ok" <=> f = 0
              /\ f # 0 => result = PipeErr(hist[f])

\* a finalized chain whose second stage failed and whose third command would
\* have failed differently
C2_Witness ==
    /\ caller = "finalized"
    /\ hist = <<NoErr, EmptyCommandErr, NotFoundErr>>
    /\ result = PipeErr(EmptyCommandErr)
    /\ Len(procs) = 1

\* C3: then on a Failed builder has no effect besides returning the failure:
\* it asks nothing of the spawning facility, and the processes, the bytes in
\* the pipes and the parent's open descriptors are as before; it opens and
\* closes no descriptor.
C3_FailedThenNoEffect ==
    [][(ThenCall /\ pipe.tag = "Err") =>
           /\ UNCHANGED <<procs, bufs, fds>>
           /\ lastSpawn' = NoSpawn
           /\ opens' = <<>>
           /\ closes' = <<>>]_vars

\* a Failed builder with a live upstream process was given a valid command
C3_Witness ==
    /\ caller = "building"
    /\ hist = <<NoErr, EmptyCommandErr, NoErr>>
    /\ pipe = PipeErr(EmptyCommandErr)
    /\ Len(procs) = 1
    /\ procs[1].status = "running"
    /\ closes = <<>>

\* C4: each stage after the first reads the pipe the stage before it writes,
\* and however the processes interleave the bytes collected from the handle
\* finally returned are what the programs of the chain, applied in order, make
\* of the parent's input.
C4_ChainingCorrect ==
    /\ \A i \in 1..Len(procs) : procs[i].stdin = i - 1
    /\ caller = "collected" => out = Piped(Len(procs))

\* the chain l | g | h was collected and gave the one matching byte
C4_Witness ==
    /\ caller = "collected"
    /\ Len(procs) = 3
    /\ procs[1].prog = <<"l">> /\ procs[2].prog = <<"g">> /\ procs[3].prog = <<"h">>
    /\ out = <<2>>

\* C5: new on an empty or whitespace-only command returns a Failed builder
\* holding the "No command as input" error and spawns nothing, and finally on
\* that builder returns that error.
C5_NewEmptyCommand ==
    /\ [][\A command \in BlankCommands :
             New(command) =>
                 /\ pipe' = PipeErr(EmptyCommandErr)
                 /\ hist' = <<EmptyCommandErr>>
                 /\ procs' = <<>>
                 /\ lastSpawn' = NoSpawn
                 /\ opens' = <<>>]_vars
    /\ []((caller = "finalized" /\ hist = <<EmptyCommandErr>>) =>
             (result = PipeErr(EmptyCommandErr) /\ procs = <<>>))

\* new was given a command without tokens and the builder was finalized
C5_Witness ==
    /\ caller = "finalized"
    /\ hist = <<EmptyCommandErr>>
    /\ result = PipeErr(EmptyCommandErr)
    /\ procs = <<>>

\* C6: then with an empty or whitespace-only command on a Spawned builder
\* returns a Failed builder holding the "No command as input" error, spawns
\* nothing, and leaves every process, the upstream one too, as it was.
C6_ThenEmptyCommand ==
    [][\A command \in BlankCommands \cap RunCommands :
          (Then(command) /\ pipe.tag = "Ok") =>
              /\ pipe' = PipeErr(EmptyCommandErr)
              /\ procs' = procs
              /\ lastSpawn' = NoSpawn]_vars

\* the then that failed on a command without tokens has returned and the
\* upstream process is running
C6_Witness ==
    /\ caller = "building"
    /\ hist = <<NoErr, EmptyCommandErr>>
    /\ pipe = PipeErr(EmptyCommandErr)
    /\ Len(procs) = 1
    /\ procs[1].status = "running"
    /\ Len(closes) = 1

\* the step is a call of new or then
BuildCall == stages' = stages + 1

\* C7: a command whose program cannot be spawned makes the new or then call
\* given it (then on a Spawned builder with its output stream) return a Failed
\* builder holding the spawn error, which is neither the "No command as input"
\* nor the "No stdout for a command" error; no process comes of it.
C7_SpawnFailure ==
    [][(/\ BuildCall
        /\ hist'[Len(hist')] = NotFoundErr
        /\ caller = "start" \/ (pipe.tag = "Ok" /\ pipe.stdout # 0)) =>
           /\ pipe'.tag = "Err"
           /\ pipe'.err = NotFoundErr
           /\ pipe'.err \notin {NoErr, EmptyCommandErr, NoStdoutErr}
           /\ lastSpawn'.program \notin Resolvable
           /\ procs' = procs]_vars

\* a then on a Spawned builder failed to spawn its command
C7_Witness ==
    /\ caller = "building"
    /\ hist = <<NoErr, NotFoundErr>>
    /\ pipe = PipeErr(NotFoundErr)
    /\ Len(procs) = 1
    /\ lastSpawn.stdin # 0

\* C8: peek leaves the builder, the processes, the pipes and the parent's
\* descriptors as they are, and on a Spawned builder returns the builder's own
\* output stream, so that repeated calls return the same stream and a later
\* then or finally finds what it would have found without them.
C8_PeekChangesNothing ==
    [][Peek =>
          /\ UNCHANGED <<caller, pipe, stages, hist, procs, bufs, fds, result, out>>
          /\ opens' = <<>>
          /\ closes' = <<>>
          /\ (pipe.tag = "Ok" /\ pipe.stdout # 0) =>
                 (peeked'.tag = "Ok" /\ peeked'.stdout = pipe.stdout)]_vars

\* a three-stage chain was peeked at its second stage, extended and finalized:
\* the then after the peek took the stream peek returned as the input of the
\* third stage
C8_Witness ==
    /\ caller = "finalized"
    /\ result.tag = "Ok"
    /\ Len(procs) = 3
    /\ peeked.tag = "Ok"
    /\ peeked.stdout # result.stdout
    /\ procs[3].stdin = 2

\* C9: peek fails exactly when the builder is Failed or its process has no
\* output stream, the error is then the "No stdout for a command" one and not
\* the one the builder holds, and the builder keeps its error, which a later
\* finally returns.
C9_PeekError ==
    /\ [][Peek =>
             /\ peeked'.tag = "Err" <=> (pipe.tag = "Err" \/ pipe.stdout = 0)
             /\ peeked'.tag = "Err" => peeked'.err = NoStdoutErr
             /\ peeked'.tag = "Ok" => peeked'.err = NoErr
             /\ pipe' = pipe]_vars
    /\ [][(caller = "building" /\ caller' = "finalized") => result' = pipe]_vars

\* peek failed on a builder holding a spawn error, and finally returned the
\* spawn error
C9_Witness ==
    /\ caller = "finalized"
    /\ peeked = [tag |-> "Err", stdout |-> 0, err |-> NoStdoutErr]
    /\ result = PipeErr(NotFoundErr)
    /\ stages = 1

\* C10: finally returns the builder's content, the handle of the process
\* spawned last or the error, and does nothing else: no spawn, no close, every
\* process as it was; the handle returned has its output stream open, reading
\* that process's pipe.
C10_Finally ==
    /\ [][(caller = "building" /\ caller' = "finalized") =>
             /\ result' = pipe
             /\ UNCHANGED <<procs, bufs, fds>>
             /\ lastSpawn' = NoSpawn
             /\ opens' = <<>>
             /\ closes' = <<>>]_vars
    /\ []((caller = "finalized" /\ result.tag = "Ok") =>
             /\ result.child = Len(procs)
             /\ result.stdout \in DOMAIN fds
             /\ fds[result.stdout] = result.child)
    /\ []((caller = "finalized" /\ result.tag = "Err") =>
             result.err = hist[FirstFailure(hist)])

\* a chain of three stages was finalized and the handle is that of the third
C10_Witness ==
    /\ caller = "finalized"
    /\ result.tag = "Ok"
    /\ result.child = 3
    /\ procs[3].status = "running"
    /\ fds = (result.stdout :> 3)

\* The words of a command string, read off the positions of its characters:
\* a word starts at a non-blank character that is first or follows a blank,
\* and runs to the last non-blank character before the next blank.
NonBlank(s) == {k \in 1..Len(s) : s[k] \notin {" ", "\t", "\n", "\r"}}
WordStarts(s) == {k \in NonBlank(s) : k = 1 \/ (k - 1) \notin NonBlank(s)}
WordEnd(s, a) ==
    CHOOSE b \in a..Len(s) :
        /\ \A j \in a..b : j \in NonBlank(s)
        /\ b = Len(s) \/ (b + 1) \notin NonBlank(s)
NthStart(s, j) ==
    CHOOSE a \in WordStarts(s) : Cardinality({x \in WordStarts(s) : x < a}) = j - 1
Words(s) ==
    [j \in 1..Cardinality(WordStarts(s)) |-> SubSeq(s, NthStart(s, j), WordEnd(s, NthStart(s, j)))]

\* C11: new on a command with at least one word whose first word is a
\* resolvable executable spawns exactly one process, with its output captured
\* in a pipe the parent reads and its input inherited, and returns a Spawned
\* builder; finally on it returns the handle of that process.
C11_NewSpawns ==
    /\ [][(/\ BuildCall
           /\ caller = "start"
           /\ Words(given'.command) # <<>>
           /\ Words(given'.command)[1] \in Resolvable) =>
              /\ Len(procs') = Len(procs) + 1
              /\ procs'[1].prog = Words(given'.command)[1]
              /\ procs'[1].status = "running"
              /\ procs'[1].stdin = 0
              /\ lastSpawn'.piped
              /\ lastSpawn'.stdin = 0
              /\ pipe'.tag = "Ok"
              /\ pipe'.child = 1
              /\ pipe'.stdout \in DOMAIN fds'
              /\ fds'[pipe'.stdout] = 1]_vars
    /\ []((caller = "finalized" /\ hist = <<NoErr>>) =>
             (result.tag = "Ok" /\ result.child = 1 /\ Len(procs) = 1))

\* new was given a spawnable command and the builder was finalized at once
C11_Witness ==
    /\ caller = "finalized"
    /\ hist = <<NoErr>>
    /\ result = PipeOk(1, FirstFd)
    /\ Len(procs) = 1
    /\ procs[1].stdin = 0

\* C12: then on a Spawned builder whose process has no output stream returns
\* a Failed builder holding the "No stdout for a command" error, which is
\* neither the spawn error nor the "No command as input" error; this is
\* decided before the command is looked at, so nothing is spawned and the
\* error is the same when the command has no word.
C12_ThenNoStdout ==
    [][(ThenCall /\ pipe.tag = "Ok" /\ pipe.stdout = 0) =>
           /\ pipe' = PipeErr(NoStdoutErr)
           /\ pipe'.err \notin {NoErr, EmptyCommandErr, NotFoundErr}
           /\ lastSpawn' = NoSpawn
           /\ opens' = <<>>
           /\ closes' = <<>>
           /\ UNCHANGED <<procs, bufs, fds>>]_vars

\* then was given a command of blanks on a Spawned builder without output
\* stream
C12_Witness ==
    /\ caller = "building"
    /\ stages = 2
    /\ given.called
    /\ given.command # <<>>
    /\ Words(given.command) = <<>>
    /\ pipe = PipeErr(NoStdoutErr)
    /\ Len(procs) = 1

\* the step is one of the caller on the builder: new, then, peek, finally or
\* letting go of it
BuilderStep ==
    \/ BuildCall
    \/ Peek
    \/ caller = "building" /\ caller' \in {"finalized", "dropped"}

\* C13: no operation on the builder waits for a process: new, then, peek,
\* finally and the drop can each be taken whatever the spawned processes have
\* or have not done, and none of them changes what a process is doing; the
\* process of a builder that was dropped goes on as before.
C13_NoWaiting ==
    /\ [](caller = "start" => \A command \in RunCommands : ENABLED New(command))
    /\ [](caller = "building" =>
             /\ ENABLED Peek
             /\ ENABLED Finally
             /\ ENABLED Drop
             /\ stages < MaxStages => \A command \in RunCommands : ENABLED Then(command))
    /\ [][BuilderStep => \A i \in 1..Len(procs) : procs'[i] = procs[i]]_vars

\* a Spawned builder of two stages was dropped and both processes are running
C13_Witness ==
    /\ caller = "dropped"
    /\ Len(procs) = 2
    /\ procs[1].status = "running"
    /\ procs[2].status = "running"
    /\ DOMAIN fds = {}

(***************************************************************************)
(* One new followed by at most one then, over the longer command strings.  *)
(***************************************************************************)
NextTok ==
    \/ \E command \in TokCommands : New(command)
    \/ \E command \in TokCommands : stages = 1 /\ Then(command)
    \/ Finally

SpecTok == Init /\ [][NextTok]_vars

\* the words of each of the longer command strings
TokWords == [s \in TokCommands |-> Words(s)]

\* C14: new and then (on a Spawned builder) tokenize alike: when the command
\* has no word nothing is asked of the spawning facility; otherwise the program
\* asked for is the first word and the arguments are the other words, each
\* unchanged and in the order of the command, none of them empty.
C14_Tokenization ==
    [][(BuildCall /\ (caller = "start" \/ (pipe.tag = "Ok" /\ pipe.stdout # 0))) =>
           LET words == TokWords[given'.command]
           IN  IF Len(words) = 0
               THEN lastSpawn' = NoSpawn
               ELSE /\ lastSpawn'.program = words[1]
                    /\ Len(lastSpawn'.args) = Len(words) - 1
                    /\ \A k \in 1..Len(lastSpawn'.args) :
                           /\ lastSpawn'.args[k] = words[k + 1]
                           /\ lastSpawn'.args[k] # <<>>]_vars

\* then was given "l g l": a program and two arguments, the second of them
\* the program's name again
C14_Witness ==
    /\ caller = "building"
    /\ stages = 2
    /\ given = Given(<<"l", " ", "g", " ", "l">>)
    /\ lastSpawn.program = <<"l">>
    /\ lastSpawn.args = << <<"g">>, <<"l">> >>
    /\ lastSpawn.stdin # 0

\* C15: every close() the parent makes is of a descriptor it has open and
\* owns, and within one call no descriptor number is closed twice: the handle
\* given to the new process's Command owns a descriptor of its own, apart from
\* the one the taken stdout owns.
C15_NoDoubleClose ==
    \A k \in 1..Len(closes) :
        /\ closes[k].open
        /\ ~closes[k].foreign
        /\ \A j \in 1..(k - 1) : closes[j].fd # closes[k].fd

\* C16: each process spawned by then has the pipe of the stage before it as
\* its standard input from the spawn on, whatever the parent does afterwards,
\* and the bytes of that pipe leave it only by that process reading them.
C16_StdinStaysValid ==
    /\ [](\A i \in 2..Len(procs) : procs[i].stdin = i - 1)
    /\ [][\A i \in 1..Len(procs) :
             /\ procs'[i].stdin = procs[i].stdin
             /\ (i < Len(procs) /\ Len(bufs'[i]) < Len(bufs[i])) =>
                    /\ procs[i + 1].status = "running"
                    /\ UNCHANGED <<caller, pipe, fds, out>>]_vars

\* the then that spawned the second stage has returned, with its three
\* closes made, and the second stage has since read the first stage's whole
\* output and passed the matching byte on
C16_Witness ==
    /\ caller = "building"
    /\ Len(procs) = 2
    /\ Len(closes) = 3
    /\ procs[1].status = "exited"
    /\ procs[2].prog = <<"g">>
    /\ procs[2].status = "running"
    /\ bufs = << <<>>, <<2>> >>

\* the pipe read ends the parent should hold: that of the stage spawned last
\* while a Spawned builder or the handle finally returned is held, else none
Held(p) == IF p.tag = "Ok" /\ p.stdout # 0 THEN {p.stdout} ELSE {}

C18_StdoutPresent ==
    /\ []((caller = "building" /\ pipe.tag = "Ok") =>
             (pipe.stdout # 0 /\ pipe.stdout \in DOMAIN fds))
    /\ [](pipe.err # NoStdoutErr /\ result.err # NoStdoutErr)
    /\ [][Peek => (peeked'.tag = "Err" <=> pipe.tag = "Err")]_vars

\* peek succeeded on a builder of three stages
C18_Witness ==
    /\ caller = "building"
    /\ stages = 3
    /\ pipe.tag = "Ok"
    /\ peeked.tag = "Ok"
    /\ peeked.stdout = pipe.stdout

====
